---- MODULE Spec2Model ----
(***************************************************************************)
(* RTI-Saarthi backend: the department routing algorithm                   *)
(* (agents/routing_agent.py), the appeal escalation state machine          *)
(* (agents/appeal_agent.py) and the filing / check-appeal handlers over    *)
(* the application store (main.py, utils/database.py).                     *)
(*                                                                         *)
(* Python strings are sequences of one-character strings, so that strip,   *)
(* lower, title, slicing, substring search and formatting are computed     *)
(* as the code computes them.                                              *)
(***************************************************************************)
EXTENDS Integers, Sequences, FiniteSets, Bags, TLC

VARIABLES
    PIO_DIRECTORY,   \* routing_agent.py:15-16, loaded once, never written
    DEPARTMENTS,     \* routing_agent.py:17-18, loaded once, never written
    query_analysis,  \* argument of RoutingAgent.route
    user_state,      \* argument of RoutingAgent.route
    routing,         \* value returned by RoutingAgent.route
    rti_record,      \* argument of AppealAgent.check_and_appeal
    generator,       \* outcome of the external generate_content call
    today,           \* datetime.now() seen by check_and_appeal
    result,          \* value returned by AppealAgent.check_and_appeal
    store,           \* rows of table rti_applications, in insertion order
    requests,        \* bag of the file-rti requests in flight, with their locals
    clock,           \* wall clock of the server
    response         \* the HTTP response most recently sent

vars == <<PIO_DIRECTORY, DEPARTMENTS, query_analysis, user_state, routing,
          rti_record, generator, today, result, store, requests, clock,
          response>>

config == <<PIO_DIRECTORY, DEPARTMENTS>>
routeVars == <<query_analysis, user_state, routing>>
evalVars == <<rti_record, generator, today, result>>
sysVars == <<store, requests, clock, response>>

-----------------------------------------------------------------------------
(* Python str operations *)

UPPER == <<"A","B","C","D","E","F","G","H","I","J","K","L","M",
           "N","O","P","Q","R","S","T","U","V","W","X","Y","Z">>
LOWERCASE == <<"a","b","c","d","e","f","g","h","i","j","k","l","m",
               "n","o","p","q","r","s","t","u","v","w","x","y","z">>

IsUpper(c) == \E i \in 1..26 : UPPER[i] = c
IsLower(c) == \E i \in 1..26 : LOWERCASE[i] = c
IsCased(c) == IsUpper(c) \/ IsLower(c)
IsSpace(c) == c \in {" ", "\t", "\n"}

LowerChar(c) == IF IsUpper(c) THEN LOWERCASE[CHOOSE i \in 1..26 : UPPER[i] = c] ELSE c
UpperChar(c) == IF IsLower(c) THEN UPPER[CHOOSE i \in 1..26 : LOWERCASE[i] = c] ELSE c

\* str.lower()
lower(s) == [i \in 1..Len(s) |-> LowerChar(s[i])]

\* str.title(): a cased character is upper-cased when it follows an uncased
\* one (or starts the string) and lower-cased otherwise
title(s) ==
    [i \in 1..Len(s) |->
        IF i > 1 /\ IsCased(s[i-1]) THEN LowerChar(s[i]) ELSE UpperChar(s[i])]

\* str.strip()
strip(s) ==
    IF \A i \in 1..Len(s) : IsSpace(s[i]) THEN <<>>
    ELSE LET a == CHOOSE i \in 1..Len(s) :
                      /\ ~IsSpace(s[i])
                      /\ \A j \in 1..(i-1) : IsSpace(s[j])
             b == CHOOSE i \in 1..Len(s) :
                      /\ ~IsSpace(s[i])
                      /\ \A j \in (i+1)..Len(s) : IsSpace(s[j])
         IN  SubSeq(s, a, b)

\* needle in hay
Contains(hay, needle) ==
    \E i \in 1..(Len(hay) - Len(needle) + 1) :
        SubSeq(hay, i, i + Len(needle) - 1) = needle

\* s.startswith(p)
startswith(s, p) == Len(s) >= Len(p) /\ SubSeq(s, 1, Len(p)) = p

\* " ".join(parts)
RECURSIVE join(_)
join(parts) ==
    IF parts = <<>> THEN <<>>
    ELSE IF Len(parts) = 1 THEN parts[1]
    ELSE parts[1] \o <<" ">> \o join(Tail(parts))

\* dict.get(key, default)
Get(d, key, default) == IF key \in DOMAIN d THEN d[key] ELSE default

\* an empty dict
EmptyDict == [k \in {} |-> <<>>]

-----------------------------------------------------------------------------
(* routing_agent.py: module constants *)

food_ration == <<"f","o","o","d","_","r","a","t","i","o","n">>
electricity == <<"e","l","e","c","t","r","i","c","i","t","y">>
water == <<"w","a","t","e","r">>
housing == <<"h","o","u","s","i","n","g">>
road_infrastructure ==
    <<"r","o","a","d","_","i","n","f","r","a","s","t","r","u","c","t","u","r","e">>
railways == <<"r","a","i","l","w","a","y","s">>
health == <<"h","e","a","l","t","h">>
education == <<"e","d","u","c","a","t","i","o","n">>
postal == <<"p","o","s","t","a","l">>
income_tax == <<"i","n","c","o","m","e","_","t","a","x">>
employment == <<"e","m","p","l","o","y","m","e","n","t">>
lpg_petroleum == <<"l","p","g","_","p","e","t","r","o","l","e","u","m">>
other == <<"o","t","h","e","r">>

STATE_SUBJECTS == {food_ration, electricity, water, housing, road_infrastructure}

STATE_ALIASES ==
  <<
    <<<<"k","e","r","a","l","a">>, <<"K","e","r","a","l","a">>>>,
    <<<<"t","h","i","r","u","v","a","n","a","n","t","h","a","p","u","r","a","m">>, <<"K","e","r","a","l","a">>>>,
    <<<<"t","r","i","v","a","n","d","r","u","m">>, <<"K","e","r","a","l","a">>>>,
    <<<<"k","o","c","h","i">>, <<"K","e","r","a","l","a">>>>,
    <<<<"e","r","n","a","k","u","l","a","m">>, <<"K","e","r","a","l","a">>>>,
    <<<<"k","o","z","h","i","k","o","d","e">>, <<"K","e","r","a","l","a">>>>,
    <<<<"c","a","l","i","c","u","t">>, <<"K","e","r","a","l","a">>>>,
    <<<<"t","h","r","i","s","s","u","r">>, <<"K","e","r","a","l","a">>>>,
    <<<<"k","o","l","l","a","m">>, <<"K","e","r","a","l","a">>>>,
    <<<<"m","a","l","a","p","p","u","r","a","m">>, <<"K","e","r","a","l","a">>>>,
    <<<<"p","a","l","a","k","k","a","d">>, <<"K","e","r","a","l","a">>>>,
    <<<<"k","a","n","n","u","r">>, <<"K","e","r","a","l","a">>>>,
    <<<<"k","a","s","a","r","a","g","o","d">>, <<"K","e","r","a","l","a">>>>,
    <<<<"a","l","a","p","p","u","z","h","a">>, <<"K","e","r","a","l","a">>>>,
    <<<<"a","l","l","e","p","p","e","y">>, <<"K","e","r","a","l","a">>>>,
    <<<<"w","a","y","a","n","a","d">>, <<"K","e","r","a","l","a">>>>,
    <<<<"i","d","u","k","k","i">>, <<"K","e","r","a","l","a">>>>,
    <<<<"k","o","t","t","a","y","a","m">>, <<"K","e","r","a","l","a">>>>,
    <<<<"p","a","t","h","a","n","a","m","t","h","i","t","t","a">>, <<"K","e","r","a","l","a">>>>,
    <<<<"t","a","m","i","l"," ","n","a","d","u">>, <<"T","a","m","i","l"," ","N","a","d","u">>>>,
    <<<<"t","a","m","i","l","n","a","d","u">>, <<"T","a","m","i","l"," ","N","a","d","u">>>>,
    <<<<"c","h","e","n","n","a","i">>, <<"T","a","m","i","l"," ","N","a","d","u">>>>,
    <<<<"m","a","d","r","a","s">>, <<"T","a","m","i","l"," ","N","a","d","u">>>>,
    <<<<"c","o","i","m","b","a","t","o","r","e">>, <<"T","a","m","i","l"," ","N","a","d","u">>>>,
    <<<<"m","a","d","u","r","a","i">>, <<"T","a","m","i","l"," ","N","a","d","u">>>>,
    <<<<"t","r","i","c","h","y">>, <<"T","a","m","i","l"," ","N","a","d","u">>>>,
    <<<<"s","a","l","e","m">>, <<"T","a","m","i","l"," ","N","a","d","u">>>>,
    <<<<"t","n">>, <<"T","a","m","i","l"," ","N","a","d","u">>>>,
    <<<<"k","a","r","n","a","t","a","k","a">>, <<"K","a","r","n","a","t","a","k","a">>>>,
    <<<<"b","e","n","g","a","l","u","r","u">>, <<"K","a","r","n","a","t","a","k","a">>>>,
    <<<<"b","a","n","g","a","l","o","r","e">>, <<"K","a","r","n","a","t","a","k","a">>>>,
    <<<<"m","y","s","u","r","u">>, <<"K","a","r","n","a","t","a","k","a">>>>,
    <<<<"m","y","s","o","r","e">>, <<"K","a","r","n","a","t","a","k","a">>>>,
    <<<<"h","u","b","l","i">>, <<"K","a","r","n","a","t","a","k","a">>>>,
    <<<<"m","a","n","g","a","l","o","r","e">>, <<"K","a","r","n","a","t","a","k","a">>>>,
    <<<<"m","a","n","g","a","l","u","r","u">>, <<"K","a","r","n","a","t","a","k","a">>>>,
    <<<<"d","e","l","h","i">>, <<"D","e","l","h","i">>>>,
    <<<<"n","e","w"," ","d","e","l","h","i">>, <<"D","e","l","h","i">>>>,
    <<<<"m","a","h","a","r","a","s","h","t","r","a">>, <<"M","a","h","a","r","a","s","h","t","r","a">>>>,
    <<<<"m","u","m","b","a","i">>, <<"M","a","h","a","r","a","s","h","t","r","a">>>>,
    <<<<"p","u","n","e">>, <<"M","a","h","a","r","a","s","h","t","r","a">>>>,
    <<<<"n","a","g","p","u","r">>, <<"M","a","h","a","r","a","s","h","t","r","a">>>>,
    <<<<"t","h","a","n","e">>, <<"M","a","h","a","r","a","s","h","t","r","a">>>>,
    <<<<"n","a","s","h","i","k">>, <<"M","a","h","a","r","a","s","h","t","r","a">>>>,
    <<<<"u","t","t","a","r"," ","p","r","a","d","e","s","h">>, <<"U","t","t","a","r"," ","P","r","a","d","e","s","h">>>>,
    <<<<"u","p">>, <<"U","t","t","a","r"," ","P","r","a","d","e","s","h">>>>,
    <<<<"l","u","c","k","n","o","w">>, <<"U","t","t","a","r"," ","P","r","a","d","e","s","h">>>>,
    <<<<"n","o","i","d","a">>, <<"U","t","t","a","r"," ","P","r","a","d","e","s","h">>>>,
    <<<<"a","g","r","a">>, <<"U","t","t","a","r"," ","P","r","a","d","e","s","h">>>>,
    <<<<"k","a","n","p","u","r">>, <<"U","t","t","a","r"," ","P","r","a","d","e","s","h">>>>,
    <<<<"v","a","r","a","n","a","s","i">>, <<"U","t","t","a","r"," ","P","r","a","d","e","s","h">>>>,
    <<<<"p","r","a","y","a","g","r","a","j">>, <<"U","t","t","a","r"," ","P","r","a","d","e","s","h">>>>,
    <<<<"w","e","s","t"," ","b","e","n","g","a","l">>, <<"W","e","s","t"," ","B","e","n","g","a","l">>>>,
    <<<<"w","b">>, <<"W","e","s","t"," ","B","e","n","g","a","l">>>>,
    <<<<"k","o","l","k","a","t","a">>, <<"W","e","s","t"," ","B","e","n","g","a","l">>>>,
    <<<<"c","a","l","c","u","t","t","a">>, <<"W","e","s","t"," ","B","e","n","g","a","l">>>>,
    <<<<"r","a","j","a","s","t","h","a","n">>, <<"R","a","j","a","s","t","h","a","n">>>>,
    <<<<"j","a","i","p","u","r">>, <<"R","a","j","a","s","t","h","a","n">>>>,
    <<<<"j","o","d","h","p","u","r">>, <<"R","a","j","a","s","t","h","a","n">>>>,
    <<<<"g","u","j","a","r","a","t">>, <<"G","u","j","a","r","a","t">>>>,
    <<<<"a","h","m","e","d","a","b","a","d">>, <<"G","u","j","a","r","a","t">>>>,
    <<<<"s","u","r","a","t">>, <<"G","u","j","a","r","a","t">>>>,
    <<<<"v","a","d","o","d","a","r","a">>, <<"G","u","j","a","r","a","t">>>>,
    <<<<"r","a","j","k","o","t">>, <<"G","u","j","a","r","a","t">>>>,
    <<<<"a","n","d","h","r","a"," ","p","r","a","d","e","s","h">>, <<"A","n","d","h","r","a"," ","P","r","a","d","e","s","h">>>>,
    <<<<"t","e","l","a","n","g","a","n","a">>, <<"T","e","l","a","n","g","a","n","a">>>>,
    <<<<"h","y","d","e","r","a","b","a","d">>, <<"T","e","l","a","n","g","a","n","a">>>>,
    <<<<"m","a","d","h","y","a"," ","p","r","a","d","e","s","h">>, <<"M","a","d","h","y","a"," ","P","r","a","d","e","s","h">>>>,
    <<<<"b","h","o","p","a","l">>, <<"M","a","d","h","y","a"," ","P","r","a","d","e","s","h">>>>,
    <<<<"i","n","d","o","r","e">>, <<"M","a","d","h","y","a"," ","P","r","a","d","e","s","h">>>>,
    <<<<"b","i","h","a","r">>, <<"B","i","h","a","r">>>>,
    <<<<"p","a","t","n","a">>, <<"B","i","h","a","r">>>>,
    <<<<"p","u","n","j","a","b">>, <<"P","u","n","j","a","b">>>>,
    <<<<"c","h","a","n","d","i","g","a","r","h">>, <<"P","u","n","j","a","b">>>>,
    <<<<"a","m","r","i","t","s","a","r">>, <<"P","u","n","j","a","b">>>>,
    <<<<"h","a","r","y","a","n","a">>, <<"H","a","r","y","a","n","a">>>>,
    <<<<"g","u","r","u","g","r","a","m">>, <<"H","a","r","y","a","n","a">>>>,
    <<<<"f","a","r","i","d","a","b","a","d">>, <<"H","a","r","y","a","n","a">>>>,
    <<<<"a","s","s","a","m">>, <<"A","s","s","a","m">>>>,
    <<<<"g","u","w","a","h","a","t","i">>, <<"A","s","s","a","m">>>>,
    <<<<"o","d","i","s","h","a">>, <<"O","d","i","s","h","a">>>>,
    <<<<"b","h","u","b","a","n","e","s","w","a","r">>, <<"O","d","i","s","h","a">>>>,
    <<<<"j","h","a","r","k","h","a","n","d">>, <<"J","h","a","r","k","h","a","n","d">>>>,
    <<<<"r","a","n","c","h","i">>, <<"J","h","a","r","k","h","a","n","d">>>>,
    <<<<"u","t","t","a","r","a","k","h","a","n","d">>, <<"U","t","t","a","r","a","k","h","a","n","d">>>>,
    <<<<"d","e","h","r","a","d","u","n">>, <<"U","t","t","a","r","a","k","h","a","n","d">>>>,
    <<<<"g","o","a">>, <<"G","o","a">>>>,
    <<<<"c","h","h","a","t","t","i","s","g","a","r","h">>, <<"C","h","h","a","t","t","i","s","g","a","r","h">>>>,
    <<<<"r","a","i","p","u","r">>, <<"C","h","h","a","t","t","i","s","g","a","r","h">>>>
  >>

Delhi == <<"D","e","l","h","i">>
Kerala == <<"K","e","r","a","l","a">>
Chhattisgarh == <<"C","h","h","a","t","t","i","s","g","a","r","h">>

\* key in STATE_ALIASES
AliasKeys == {STATE_ALIASES[i][1] : i \in 1..Len(STATE_ALIASES)}
InAliases(key) == key \in AliasKeys

\* STATE_ALIASES[key]
AliasOf(key) ==
    STATE_ALIASES[CHOOSE i \in 1..Len(STATE_ALIASES) : STATE_ALIASES[i][1] = key][2]

(* PIO_DIRECTORY["state"] is a dict in file order: a sequence of
   [name, pios] entries with distinct names *)
StateTable == Get(PIO_DIRECTORY, "state", <<>>)

\* name in PIO_DIRECTORY.get("state", {})
InStateTable(name) == \E i \in 1..Len(StateTable) : StateTable[i].name = name

\* PIO_DIRECTORY.get("state", {}).get(name, [])
StatePios(name) ==
    IF InStateTable(name)
    THEN StateTable[CHOOSE i \in 1..Len(StateTable) : StateTable[i].name = name].pios
    ELSE <<>>

\* PIO_DIRECTORY.get("central", [])
CentralPios == Get(PIO_DIRECTORY, "central", <<>>)

\* the value a raised exception is modelled by
Raise(e) == [raise |-> e]
Raised(v) == "raise" \in DOMAIN v
\* the value a function that returned v is modelled by, where it may also raise
Returned(v) == [returned |-> v]

\* the alias table left out: only the directory's own names are recognised
_normalize_state_no_alias(raw) ==
    IF raw = <<>> THEN Delhi
    ELSE LET key == lower(strip(raw))
             titled == title(strip(raw))
         IN  IF InStateTable(titled) THEN titled
             ELSE IF \E i \in 1..Len(StateTable) : lower(StateTable[i].name) = key
                  THEN StateTable[CHOOSE i \in 1..Len(StateTable) :
                           /\ lower(StateTable[i].name) = key
                           /\ \A j \in 1..(i-1) : lower(StateTable[j].name) # key].name
             ELSE titled

\* the case-insensitive scan of the directory's names left out
_normalize_state_no_scan(raw) ==
    IF raw = <<>> THEN Delhi
    ELSE LET key == lower(strip(raw))
             titled == title(strip(raw))
         IN  IF InAliases(key) THEN AliasOf(key) ELSE titled

\* def _normalize_state(raw)
_normalize_state(raw) ==
    IF raw = <<>> THEN Delhi
    ELSE LET key == lower(strip(raw))
             titled == title(strip(raw))
         IN  IF InAliases(key) THEN AliasOf(key)
             ELSE IF InStateTable(titled) THEN titled
             ELSE IF \E i \in 1..Len(StateTable) : lower(StateTable[i].name) = key
                  THEN StateTable[CHOOSE i \in 1..Len(StateTable) :
                           /\ lower(StateTable[i].name) = key
                           /\ \A j \in 1..(i-1) : lower(StateTable[j].name) # key].name
             ELSE titled

\* def _extract_state_from_question(self, question, location)
_extract_state_from_question(question, location) ==
    LET combined == lower(question \o <<" ">> \o location)
        hit(i) == Contains(combined, STATE_ALIASES[i][1])
    IN  IF \E i \in 1..Len(STATE_ALIASES) : hit(i)
        THEN STATE_ALIASES[CHOOSE i \in 1..Len(STATE_ALIASES) :
                 hit(i) /\ \A j \in 1..(i-1) : ~hit(j)][2]
        ELSE <<>>

\* the first element of list that satisfies test, in list order
FirstOf(list, test(_)) ==
    list[CHOOSE i \in 1..Len(list) : test(list[i]) /\ \A j \in 1..(i-1) : ~test(list[j])]
AnyOf(list, test(_)) == \E i \in 1..Len(list) : test(list[i])

\* cats = " ".join(c.lower() for c in pio.get("categories", []))
Cats(pio) ==
    LET tags == Get(pio, "categories", <<>>)
    IN  join([i \in 1..Len(tags) |-> lower(tags[i])])

\* _find_pio, lines 140-145: the dict fallback_map
fallback_dict ==
    (food_ration :> <<"C","0","0","9">>) @@ (health :> <<"C","0","0","2">>) @@ (education :> <<"C","0","0","3">>)
    @@ (road_infrastructure :> <<"C","0","0","4">>) @@ (postal :> <<"C","0","0","5">>)
    @@ (income_tax :> <<"C","0","0","6">>) @@ (employment :> <<"C","0","0","7">>)
    @@ (lpg_petroleum :> <<"C","0","0","8">>) @@ (housing :> <<"C","0","1","0">>)
    @@ (railways :> <<"C","0","0","1">>)

\* fallback_map.get(category, "C009")
fallback_map(category) == Get(fallback_dict, category, <<"C","0","0","9">>)

\* Python's None
None == [none |-> TRUE]
IsNone(v) == "none" \in DOMAIN v

\* _find_pio, lines 116-118: the category's configuration
dept_info(category) == Get(DEPARTMENTS.categories, category, EmptyDict)
keywords(category) ==
    LET kws == Get(dept_info(category), "keywords", <<>>)
    IN  [i \in 1..Len(kws) |-> lower(kws[i])]
kwMatch(category, pio) ==
    \E i \in 1..Len(keywords(category)) : Contains(Cats(pio), keywords(category)[i])

\* _find_pio, line 120
is_state_subject(category) == category \in STATE_SUBJECTS

\* the category name itself not looked for in the tags: keywords only
region_office_keywords_only(category, state) ==
    LET state_pios == StatePios(state)
        stateMatch(pio) == kwMatch(category, pio)
    IN  IF state_pios = <<>> THEN None
        ELSE IF AnyOf(state_pios, stateMatch) THEN FirstOf(state_pios, stateMatch)
        ELSE state_pios[1]

\* _find_pio, lines 121-128: the office of the state's list, None when the
\* list is empty and control falls through to the central tiers
region_office(category, state) ==
    LET state_pios == StatePios(state)
        stateMatch(pio) == kwMatch(category, pio) \/ Contains(Cats(pio), category)
    IN  IF state_pios = <<>> THEN None
        ELSE IF AnyOf(state_pios, stateMatch) THEN FirstOf(state_pios, stateMatch)
        ELSE state_pios[1]

\* _find_pio, lines 130-149: configured central id, then keyword scan of the
\* central list, then fallback_map; None when all three find nothing
central_office(category) ==
    LET central_id == Get(dept_info(category), "central_pio_id", <<>>)
        hasCentralId(pio) == pio.id = central_id
        centralMatch(pio) == kwMatch(category, pio)
        fallback_id == fallback_map(category)
        hasFallbackId(pio) == pio.id = fallback_id
    IN  IF central_id # <<>> /\ AnyOf(CentralPios, hasCentralId)
        THEN FirstOf(CentralPios, hasCentralId)
        ELSE IF AnyOf(CentralPios, centralMatch) THEN FirstOf(CentralPios, centralMatch)
        ELSE IF AnyOf(CentralPios, hasFallbackId) THEN FirstOf(CentralPios, hasFallbackId)
        ELSE None

\* a function body that ends without a return statement
last_resort_missing == None

\* _find_pio, line 151
last_resort ==
    IF PIO_DIRECTORY.central = <<>> THEN Raise("IndexError")
    ELSE PIO_DIRECTORY.central[1]

\* the region tier consulted for every category
_find_pio_region_for_all(category, state) ==
    IF ~IsNone(region_office(category, state)) THEN region_office(category, state)
    ELSE IF ~IsNone(central_office(category)) THEN central_office(category)
    ELSE last_resort

\* the central tiers consulted before the region tier
_find_pio_central_first(category, state) ==
    IF ~IsNone(central_office(category)) THEN central_office(category)
    ELSE IF is_state_subject(category) /\ ~IsNone(region_office(category, state))
    THEN region_office(category, state)
    ELSE last_resort

\* def _find_pio(self, category, state)
_find_pio(category, state) ==
    IF is_state_subject(category) /\ ~IsNone(region_office(category, state))
    THEN region_office(category, state)
    ELSE IF ~IsNone(central_office(category)) THEN central_office(category)
    ELSE last_resort

DEFAULT_PORTAL == <<"h","t","t","p","s",":","/","/","r","t","i","o","n","l","i","n","e",".","g","o","v",".","i","n">>

\* the query text consulted whether or not the hint's region is registered
resolved_state_text_first(qa, hint) ==
    LET normalized == _normalize_state(hint)
        extracted == _extract_state_from_question(
                         Get(qa, "original_question", <<>>),
                         Get(Get(qa, "extracted_info", EmptyDict), "location", <<>>))
    IN  IF extracted # <<>> THEN extracted ELSE normalized

\* route, lines 82-91: the state handed to _find_pio
resolved_state(qa, hint) ==
    LET normalized == _normalize_state(hint)
        extracted == _extract_state_from_question(
                         Get(qa, "original_question", <<>>),
                         Get(Get(qa, "extracted_info", EmptyDict), "location", <<>>))
    IN  IF ~InStateTable(normalized) /\ extracted # <<>>
        THEN extracted ELSE normalized

\* the jurisdiction class derived from the category instead of the office id
route_class_by_category(qa, hint) ==
    LET category == Get(qa, "category", other)
        state == resolved_state(qa, hint)
        pio == _find_pio(category, state)
    IN  IF Raised(pio) THEN pio
        ELSE [pio |-> pio,
              department |-> Get(pio, "department", <<"N","o","n","e">>),
              filing_url |-> Get(pio, "portal", DEFAULT_PORTAL),
              category |-> category,
              jurisdiction |-> IF is_state_subject(category)
                               THEN "state" ELSE "central",
              filing_fee |-> IF Get(qa, "is_bpl", FALSE) THEN 0
                             ELSE Get(Get(DEPARTMENTS, "filing_fee", EmptyDict),
                                      "general", 10)]

\* def route(self, query_analysis, user_state)
route(qa, hint) ==
    LET category == Get(qa, "category", other)
        state == resolved_state(qa, hint)
        pio == _find_pio(category, state)
    IN  IF Raised(pio) THEN pio
        ELSE [pio |-> pio,
              department |-> Get(pio, "department", <<"N","o","n","e">>),
              filing_url |-> Get(pio, "portal", DEFAULT_PORTAL),
              category |-> category,
              jurisdiction |-> IF startswith(Get(pio, "id", <<>>), <<"C">>)
                               THEN "central" ELSE "state",
              filing_fee |-> IF Get(qa, "is_bpl", FALSE) THEN 0
                             ELSE Get(Get(DEPARTMENTS, "filing_fee", EmptyDict),
                                      "general", 10)]

-----------------------------------------------------------------------------
(* Reference data.  data/pio_directory.json and data/departments.json are
   read at import time; the directories below are the ones the model is
   checked over.  Every office carries an id and the central list is never
   empty, as the lookups pio["id"] and PIO_DIRECTORY["central"][0] require. *)

C001 == [id |-> <<"C","0","0","1">>, department |-> <<"R","a","i","l","w","a","y","s">>,
         categories |-> <<<<"R","a","i","l","w","a","y","s">>, <<"T","r","a","i","n">>>>, portal |-> <<"r","a","i","l",".","g","o","v">>]
C002 == [id |-> <<"C","0","0","2">>, department |-> <<"H","e","a","l","t","h">>,
         categories |-> <<<<"H","e","a","l","t","h">>, <<"H","o","s","p","i","t","a","l">>>>]
C009 == [id |-> <<"C","0","0","9">>, department |-> <<"F","o","o","d">>,
         categories |-> <<<<"F","o","o","d">>, <<"R","a","t","i","o","n">>, <<"P","D","S">>>>]
KL001 == [id |-> <<"K","L","0","0","1">>, department |-> <<"C","i","v","i","l"," ","S","u","p","p","l","i","e","s">>,
          categories |-> <<<<"R","a","t","i","o","n"," ","C","a","r","d">>, <<"P","D","S">>>>, portal |-> <<"k","e","r","a","l","a",".","g","o","v">>]
KL002 == [id |-> <<"K","L","0","0","2">>, department |-> <<"K","S","E","B">>,
          categories |-> <<<<"E","l","e","c","t","r","i","c","i","t","y">>>>]
DL001 == [id |-> <<"D","L","0","0","1">>, department |-> <<"D","e","l","h","i"," ","J","a","l"," ","B","o","a","r","d">>,
          categories |-> <<<<"W","a","t","e","r"," ","S","u","p","p","l","y">>>>]
CG001 == [id |-> <<"C","G","0","0","1">>, department |-> <<"C","S","P","D","C","L">>,
          categories |-> <<<<"P","o","w","e","r">>>>]
DD001 == [id |-> <<"D","D","0","0","1">>, department |-> <<"H","o","u","s","i","n","g"," ","B","o","a","r","d">>,
          categories |-> <<<<"H","o","u","s","i","n","g">>>>]
CH001 == [id |-> <<"C","H","0","0","1">>, department |-> <<"C","h","a","n","d","i","g","a","r","h"," ","E","l","e","c","t","r","i","c","i","t","y">>,
          categories |-> <<<<"E","l","e","c","t","r","i","c","i","t","y">>>>]

DamanAndDiu == <<"D","a","m","a","n"," ","a","n","d"," ","D","i","u">>
Chandigarh == <<"C","h","a","n","d","i","g","a","r","h">>
Punjab == <<"P","u","n","j","a","b">>

CentralLists == {<<C009, C001, C002>>, <<C001, C009>>, <<C002>>}

StateTables ==
    { <<>>,
      <<[name |-> Kerala, pios |-> <<KL002, KL001>>],
        [name |-> Delhi, pios |-> <<DL001>>]>>,
      <<[name |-> Kerala, pios |-> <<KL002>>]>>,
      <<[name |-> Kerala, pios |-> <<>>],
        [name |-> Chhattisgarh, pios |-> <<CG001>>],
        [name |-> DamanAndDiu, pios |-> <<DD001>>]>>,
      <<[name |-> Kerala, pios |-> <<KL001, KL002>>]>>,
      <<[name |-> Chandigarh, pios |-> <<CH001>>],
        [name |-> Punjab, pios |-> <<>>]>> }

Directories == [central : CentralLists, state : StateTables]

DepartmentConfigs ==
    { [categories |->
           (food_ration :> [keywords |-> <<<<"R","a","t","i","o","n">>, <<"P","D","S">>>>,
                            central_pio_id |-> <<"C","0","0","9">>])
        @@ (electricity :> [keywords |-> <<<<"E","l","e","c","t","r","i","c","i","t","y">>, <<"p","o","w","e","r">>>>])
        @@ (railways :> [keywords |-> <<<<"r","a","i","l","w","a","y">>, <<"t","r","a","i","n">>>>,
                         central_pio_id |-> <<"C","0","0","1">>])
        @@ (health :> [keywords |-> <<<<"h","o","s","p","i","t","a","l">>>>,
                       central_pio_id |-> <<"C","0","0","2">>]),
       filing_fee |-> [general |-> 10]],
      [categories |->
           (railways :> [keywords |-> <<<<"t","r","a","i","n">>>>, central_pio_id |-> <<"C","7","7","7">>])
        @@ (food_ration :> [keywords |-> <<<<"g","r","a","i","n">>>>]),
       filing_fee |-> [general |-> 20]],
      [categories |-> EmptyDict] }

(* Inputs of route *)
Categories == {food_ration, electricity, railways, health, other, <<"z","z","z">>}

Hints == {<<>>, <<" "," ">>, <<"T","r","i","v","a","n","d","r","u","m">>, <<" ","K","E","R","A","L","A"," ">>, <<"K","e","r","a","l","a">>,
          <<"d","a","m","a","n"," ","a","n","d"," ","d","i","u">>, <<"c","h","h","a","t","t","i","s","g","a","r","h">>, <<"A","t","l","a","n","t","i","s">>}

Questions == {<<>>, <<"r","a","t","i","o","n"," ","c","a","r","d"," ","i","n"," ","K","o","c","h","i">>, <<"p","o","w","e","r"," ","s","u","p","p","l","y">>}

QueryAnalyses ==
    { base @@ cat @@ bpl :
        base \in {[original_question |-> q,
                   extracted_info |-> [location |-> <<"N","o","t"," ","s","p","e","c","i","f","i","e","d">>]] :
                  q \in Questions},
        cat \in {EmptyDict} \cup {[category |-> c] : c \in Categories},
        bpl \in {EmptyDict, [is_bpl |-> TRUE], [is_bpl |-> FALSE]} }

Pending == [pending |-> TRUE]
Idle == [idle |-> TRUE]

-----------------------------------------------------------------------------
(* SpecRoute: RoutingAgent.route applied to every input over every directory *)

InitRoute ==
    /\ PIO_DIRECTORY \in Directories
    /\ DEPARTMENTS \in DepartmentConfigs
    /\ query_analysis \in QueryAnalyses
    /\ user_state \in Hints
    /\ routing = Pending
    /\ rti_record = Idle /\ generator = Idle /\ today = 0 /\ result = Idle
    /\ store = <<>> /\ requests = EmptyBag /\ clock = 0 /\ response = Idle

Route ==
    /\ routing = Pending
    /\ routing' = route(query_analysis, user_state)
    /\ UNCHANGED <<config, query_analysis, user_state, evalVars, sysVars>>

NextRoute == Route

SpecRoute == InitRoute /\ [][NextRoute]_vars

-----------------------------------------------------------------------------
(* datetime values are counts of clock units; a day is UnitsPerDay units *)

UnitsPerDay == 2

\* timedelta.days: whole days, rounded down
Days(delta) == delta \div UnitsPerDay

\* datetime.isoformat(): "YYYY-MM-DD" then "T" and the time of day
isoformat(t) == [date |-> t \div UnitsPerDay, time |-> t % UnitsPerDay]

\* datetime.fromisoformat()
fromisoformat(s) == s.date * UnitsPerDay + s.time

\* str(n) for n >= 0
RECURSIVE Decimal(_)
Decimal(n) ==
    LET digit == <<"0","1","2","3","4","5","6","7","8","9">>
    IN  IF n < 10 THEN <<digit[n + 1]>> ELSE Decimal(n \div 10) \o <<digit[(n % 10) + 1]>>

\* f"{n:05d}"
RECURSIVE ZeroPad(_, _)
ZeroPad(s, width) == IF Len(s) >= width THEN s ELSE ZeroPad(<<"0">> \o s, width)

\* rti_record.get("filed_at", "")[:10]: the date part of the ISO timestamp
DatePart(rec) == IF "filed_at" \in DOMAIN rec THEN Decimal(rec.filed_at.date) ELSE <<>>

\* datetime.strftime("%d %B %Y")
strftime(t) == Decimal(t \div UnitsPerDay)

-----------------------------------------------------------------------------
(* appeal_agent.py *)

RESPONSE_DEADLINE_DAYS == 30
REMINDER_DAYS == 25

(* TEMPLATES["first_appeal_template"]["body"] of data/rti_templates.json:
   literal text and the replacement fields that generate_first_appeal fills *)
Lit(s) == [lit |-> s]
Field(f) == [field |-> f]
first_appeal_template ==
    << Lit(<<"T","o"," ","T","h","e"," ","F","i","r","s","t"," ","A","p","p","e","l","l","a","t","e"," ","A","u","t","h","o","r","i","t","y",","," ">>), Field("department_name"),
       Lit(<<","," ">>), Field("department_address"),
       Lit(<<"."," ","S","u","b","j","e","c","t",":"," ","F","i","r","s","t"," ","A","p","p","e","a","l"," ","u","/","s"," ","1","9","(","1",")",","," ","R","T","I"," ">>), Field("ref_number"),
       Lit(<<" ","d","a","t","e","d"," ">>), Field("rti_date"), Lit(<<" ","r","e","g","a","r","d","i","n","g"," ">>), Field("subject"),
       Lit(<<"."," ","N","o"," ","r","e","p","l","y"," ","i","n"," ","3","0"," ","d","a","y","s","."," ">>), Field("applicant_name"),
       Lit(<<","," ">>), Field("appeal_date") >>

\* str.format(**kwargs) raises KeyError for a replacement field not supplied
format_raises(tmpl, kwargs) ==
    \E i \in 1..Len(tmpl) :
        "field" \in DOMAIN tmpl[i] /\ tmpl[i].field \notin DOMAIN kwargs

\* str.format(**kwargs) where it does not raise
RECURSIVE format(_, _)
format(tmpl, kwargs) ==
    IF tmpl = <<>> THEN <<>>
    ELSE (IF "lit" \in DOMAIN tmpl[1] THEN tmpl[1].lit ELSE kwargs[tmpl[1].field])
         \o format(Tail(tmpl), kwargs)

(* The outcome of client.models.generate_content(...) followed by
   response.text: an exception, a text, or None *)
GenRaise(e) == [kind |-> "raise", error |-> e]
GenText(s) == [kind |-> "text", text |-> s]
GenNone == [kind |-> "none"]

\* the fallback of generate_first_appeal left out: the failure propagates
generate_first_appeal_no_fallback(rec, gen, now) ==
    IF gen.kind = "text" THEN Returned(strip(gen.text))
    ELSE Raise(IF gen.kind = "raise" THEN gen.error ELSE "AttributeError")

\* def generate_first_appeal(self, rti_record)
generate_first_appeal(rec, gen, now) ==
    LET kwargs ==
            [department_name |-> Get(rec, "department", <<"C","o","n","c","e","r","n","e","d"," ","D","e","p","a","r","t","m","e","n","t">>),
             department_address |-> <<"I","n","d","i","a">>,
             applicant_name |-> Get(rec, "applicant_name", <<"A","p","p","l","i","c","a","n","t">>),
             rti_date |-> DatePart(rec),
             ref_number |-> Get(rec, "ref_number", <<>>),
             subject |-> Get(rec, "subject", <<"t","h","e"," ","m","a","t","t","e","r">>),
             appeal_date |-> strftime(now)]
    IN  IF gen.kind = "text" THEN Returned(strip(gen.text))
        ELSE IF format_raises(first_appeal_template, kwargs) THEN Raise("KeyError")
        ELSE Returned(format(first_appeal_template, kwargs))

\* the deadline compared with > where the code has >=
check_and_appeal_late(rec, gen, now) ==
    LET filed_date == fromisoformat(Get(rec, "filed_at", isoformat(now)))
        days_elapsed == Days(now - filed_date)
        status == Get(rec, "status", "filed")
        appeal == generate_first_appeal(rec, gen, now)
    IN  IF status = "response_received"
        THEN [value |-> [action |-> "none", message |-> "RTI already responded to."],
              generator_calls |-> 0]
        ELSE IF days_elapsed > RESPONSE_DEADLINE_DAYS /\ ~Get(rec, "appeal_filed", FALSE)
        THEN [value |-> IF Raised(appeal) THEN appeal
                        ELSE [action |-> "first_appeal",
                              days_elapsed |-> days_elapsed,
                              appeal_draft |-> appeal.returned,
                              message |-> "30 days have passed. First Appeal generated automatically."],
              generator_calls |-> 1]
        ELSE IF days_elapsed >= REMINDER_DAYS
        THEN [value |-> [action |-> "reminder",
                         days_elapsed |-> days_elapsed,
                         days_remaining |-> RESPONSE_DEADLINE_DAYS - days_elapsed,
                         message |-> <<"Reminder: {} days remaining for PIO response.",
                                       RESPONSE_DEADLINE_DAYS - days_elapsed>>],
              generator_calls |-> 0]
        ELSE [value |-> [action |-> "waiting",
                         days_elapsed |-> days_elapsed,
                         days_remaining |-> RESPONSE_DEADLINE_DAYS - days_elapsed,
                         message |-> <<"Waiting for response. {} days remaining.",
                                       RESPONSE_DEADLINE_DAYS - days_elapsed>>],
              generator_calls |-> 0]

\* the response_received test left out
check_and_appeal_no_status(rec, gen, now) ==
    LET filed_date == fromisoformat(Get(rec, "filed_at", isoformat(now)))
        days_elapsed == Days(now - filed_date)
        status == Get(rec, "status", "filed")
        appeal == generate_first_appeal(rec, gen, now)
    IN  IF FALSE
        THEN [value |-> [action |-> "none", message |-> "RTI already responded to."],
              generator_calls |-> 0]
        ELSE IF days_elapsed >= RESPONSE_DEADLINE_DAYS /\ ~Get(rec, "appeal_filed", FALSE)
        THEN [value |-> IF Raised(appeal) THEN appeal
                        ELSE [action |-> "first_appeal",
                              days_elapsed |-> days_elapsed,
                              appeal_draft |-> appeal.returned,
                              message |-> "30 days have passed. First Appeal generated automatically."],
              generator_calls |-> 1]
        ELSE IF days_elapsed >= REMINDER_DAYS
        THEN [value |-> [action |-> "reminder",
                         days_elapsed |-> days_elapsed,
                         days_remaining |-> RESPONSE_DEADLINE_DAYS - days_elapsed,
                         message |-> <<"Reminder: {} days remaining for PIO response.",
                                       RESPONSE_DEADLINE_DAYS - days_elapsed>>],
              generator_calls |-> 0]
        ELSE [value |-> [action |-> "waiting",
                         days_elapsed |-> days_elapsed,
                         days_remaining |-> RESPONSE_DEADLINE_DAYS - days_elapsed,
                         message |-> <<"Waiting for response. {} days remaining.",
                                       RESPONSE_DEADLINE_DAYS - days_elapsed>>],
              generator_calls |-> 0]

\* the appeal generated before the decision is taken, whatever the decision
check_and_appeal_eager(rec, gen, now) ==
    LET filed_date == fromisoformat(Get(rec, "filed_at", isoformat(now)))
        days_elapsed == Days(now - filed_date)
        status == Get(rec, "status", "filed")
        appeal == generate_first_appeal(rec, gen, now)
    IN  IF status = "response_received"
        THEN [value |-> [action |-> "none", message |-> "RTI already responded to."],
              generator_calls |-> 1]
        ELSE IF days_elapsed >= RESPONSE_DEADLINE_DAYS /\ ~Get(rec, "appeal_filed", FALSE)
        THEN [value |-> IF Raised(appeal) THEN appeal
                        ELSE [action |-> "first_appeal",
                              days_elapsed |-> days_elapsed,
                              appeal_draft |-> appeal.returned,
                              message |-> "30 days have passed. First Appeal generated automatically."],
              generator_calls |-> 1]
        ELSE IF days_elapsed >= REMINDER_DAYS
        THEN [value |-> [action |-> "reminder",
                         days_elapsed |-> days_elapsed,
                         days_remaining |-> RESPONSE_DEADLINE_DAYS - days_elapsed,
                         message |-> <<"Reminder: {} days remaining for PIO response.",
                                       RESPONSE_DEADLINE_DAYS - days_elapsed>>],
              generator_calls |-> 1]
        ELSE [value |-> [action |-> "waiting",
                         days_elapsed |-> days_elapsed,
                         days_remaining |-> RESPONSE_DEADLINE_DAYS - days_elapsed,
                         message |-> <<"Waiting for response. {} days remaining.",
                                       RESPONSE_DEADLINE_DAYS - days_elapsed>>],
              generator_calls |-> 1]

(* def check_and_appeal(self, rti_record): the returned dict (or the
   exception raised) and the number of generate_content calls made *)
check_and_appeal(rec, gen, now) ==
    LET filed_date == fromisoformat(Get(rec, "filed_at", isoformat(now)))
        days_elapsed == Days(now - filed_date)
        status == Get(rec, "status", "filed")
        appeal == generate_first_appeal(rec, gen, now)
    IN  IF status = "response_received"
        THEN [value |-> [action |-> "none", message |-> "RTI already responded to."],
              generator_calls |-> 0]
        ELSE IF days_elapsed >= RESPONSE_DEADLINE_DAYS /\ ~Get(rec, "appeal_filed", FALSE)
        THEN [value |-> IF Raised(appeal) THEN appeal
                        ELSE [action |-> "first_appeal",
                              days_elapsed |-> days_elapsed,
                              appeal_draft |-> appeal.returned,
                              message |-> "30 days have passed. First Appeal generated automatically."],
              generator_calls |-> 1]
        ELSE IF days_elapsed >= REMINDER_DAYS
        THEN [value |-> [action |-> "reminder",
                         days_elapsed |-> days_elapsed,
                         days_remaining |-> RESPONSE_DEADLINE_DAYS - days_elapsed,
                         message |-> <<"Reminder: {} days remaining for PIO response.",
                                       RESPONSE_DEADLINE_DAYS - days_elapsed>>],
              generator_calls |-> 0]
        ELSE [value |-> [action |-> "waiting",
                         days_elapsed |-> days_elapsed,
                         days_remaining |-> RESPONSE_DEADLINE_DAYS - days_elapsed,
                         message |-> <<"Waiting for response. {} days remaining.",
                                       RESPONSE_DEADLINE_DAYS - days_elapsed>>],
              generator_calls |-> 0]

-----------------------------------------------------------------------------
(* SpecEval: AppealAgent.check_and_appeal applied to every record snapshot,
   clock reading and generator outcome *)

MaxDays == 32
MaxClock == MaxDays * UnitsPerDay + 1

GeneratorOutcomes ==
    {GenRaise("Unavailable"), GenRaise("Timeout"), GenNone,
     GenText(<<>>), GenText(<<" "," ">>), GenText(<<" ","A","p","p","e","a","l"," ","l","e","t","t","e","r"," ">>)}

Statuses == {"filed", "acknowledged", "response_received"}

RecordSnapshots ==
    [ref_number : {<<"R","T","I","2","0","2","4","-","0","0","0","0","1">>},
     status : Statuses,
     filed_at : {isoformat(t) : t \in 0..1},
     department : {<<"F","o","o","d">>},
     subject : {<<"R","a","t","i","o","n"," ","c","a","r","d">>},
     applicant_name : {<<"A","s","h","a">>},
     appeal_filed : BOOLEAN]

InitEval ==
    /\ PIO_DIRECTORY = Idle /\ DEPARTMENTS = Idle
    /\ query_analysis = Idle /\ user_state = Idle /\ routing = Idle
    /\ rti_record \in RecordSnapshots
    /\ generator \in GeneratorOutcomes
    /\ today \in 0..MaxClock
    /\ result = Pending
    /\ store = <<>> /\ requests = EmptyBag /\ clock = 0 /\ response = Idle

\* the snapshot marked as appealed by the evaluation that decides first-appeal
Evaluate_marks_record ==
    /\ result = Pending
    /\ result' = check_and_appeal(rti_record, generator, today)
    /\ rti_record' = IF ~Raised(result'.value) /\ result'.value.action = "first_appeal"
                     THEN [rti_record EXCEPT !.appeal_filed = TRUE]
                     ELSE rti_record
    /\ UNCHANGED <<config, routeVars, generator, today, sysVars>>

Evaluate ==
    /\ result = Pending
    /\ result' = check_and_appeal(rti_record, generator, today)
    /\ UNCHANGED <<config, routeVars, rti_record, generator, today, sysVars>>

NextEval == Evaluate

SpecEval == InitEval /\ [][NextEval]_vars

-----------------------------------------------------------------------------
(* utils/database.py *)

\* datetime.utcnow().year
YearOf(t) == 2024 + t \div (365 * UnitsPerDay)

\* db.query(RTIApplication).count()
count(rows) == Len(rows)

\* def generate_ref_number(db)
generate_ref_number(rows, now) ==
    <<"R","T","I">> \o Decimal(YearOf(now)) \o <<"-">> \o ZeroPad(Decimal(count(rows) + 1), 5)

\* db.query(RTIApplication).filter(RTIApplication.ref_number == ref).first()
HasRow(rows, ref) == \E i \in 1..Len(rows) : rows[i].ref_number = ref
RowIndex(rows, ref) == CHOOSE i \in 1..Len(rows) : rows[i].ref_number = ref

-----------------------------------------------------------------------------
(* agents/query_agent.py, agents/drafting_agent.py *)

\* def _fallback_response(citizen_question, error)
_fallback_response(citizen_question) ==
    [original_question |-> citizen_question,
     subject |-> <<"R","e","q","u","e","s","t"," ","f","o","r"," ","G","o","v","e","r","n","m","e","n","t"," ","I","n","f","o","r","m","a","t","i","o","n">>,
     category |-> other,
     extracted_info |-> [location |-> <<"N","o","t"," ","s","p","e","c","i","f","i","e","d">>]]

\* def analyze(self, citizen_question): gen is the generator's outcome, its
\* text already parsed by json.loads when that succeeded
analyze(citizen_question, gen) ==
    IF gen.kind = "json" THEN gen.json ELSE _fallback_response(citizen_question)

\* def draft(...).get("subject"): the generated subject, or the one
\* _fallback_draft takes from the query analysis
draft_subject(qa, gen) ==
    IF gen.kind = "json" THEN gen.json.subject
    ELSE Get(qa, "subject", <<"R","e","q","u","e","s","t"," ","f","o","r"," ","I","n","f","o","r","m","a","t","i","o","n">>)

GenJson(j) == [kind |-> "json", json |-> j]

\* appeal_agent.py, lines 124-135: the estimate returned when the generator
\* call or json.loads fails; probabilities in hundredths
prediction_fallback ==
    [success_probability |-> 78,
     factors |-> [question_clarity |-> 82,
                  department_responsiveness |-> 74,
                  information_availability |-> 80],
     risk_level |-> "low",
     tips |-> <<"Be specific about dates", "Include specific document names">>,
     estimated_response_days |-> 22]

(* The text of a generator response is a sequence of pieces: a whitespace
   character, a code fence (three backquotes), the word "json", or a body of
   text.  The
   bodies that are JSON documents, with the values json.loads gives them
   (probabilities in hundredths): *)
FullEstimateDoc ==
    "{\"success_probability\": 0.6, \"factors\": {...}, \"risk_level\": \"medium\", \"tips\": [...], \"estimated_response_days\": 30}"
ErrorDoc == "{\"error\": \"quota exceeded\"}"
PartialDoc == "{\"success_probability\": 0.9}"
EmptyObjectDoc == "{}"

JsonDocuments ==
    (FullEstimateDoc :>
        [success_probability |-> 60,
         factors |-> [question_clarity |-> 70,
                      department_responsiveness |-> 50,
                      information_availability |-> 60],
         risk_level |-> "medium",
         tips |-> <<"Attach the ration card number", "Name the ration shop">>,
         estimated_response_days |-> 30])
    @@ (ErrorDoc :> [error |-> "quota exceeded"])
    @@ (PartialDoc :> [success_probability |-> 90])
    @@ (EmptyObjectDoc :> EmptyDict)

\* json.loads(text)
json_loads(text) ==
    IF Len(text) = 1 /\ text[1] \in DOMAIN JsonDocuments
    THEN Returned(JsonDocuments[text[1]])
    ELSE Raise("JSONDecodeError")

\* the text without its leading whitespace, and without its trailing whitespace
RECURSIVE lstrip(_)
lstrip(s) == IF s # <<>> /\ IsSpace(s[1]) THEN lstrip(Tail(s)) ELSE s
RECURSIVE rstrip(_)
rstrip(s) ==
    IF s # <<>> /\ IsSpace(s[Len(s)]) THEN rstrip(SubSeq(s, 1, Len(s) - 1)) ELSE s

\* the three backquotes that open or close a code fence
FENCE == "<fence>"

\* def _clean_json(raw)
_clean_json(raw) ==
    LET stripped == strip(raw)
        \* re.sub: an opening fence, an optional "json" and whitespace removed
        opened ==
            IF stripped # <<>> /\ stripped[1] = FENCE
            THEN LET rest == Tail(stripped)
                 IN  lstrip(IF rest # <<>> /\ rest[1] = "json" THEN Tail(rest) ELSE rest)
            ELSE stripped
        \* re.sub: whitespace and a closing fence removed
        closed ==
            IF opened # <<>> /\ opened[Len(opened)] = FENCE
            THEN rstrip(SubSeq(opened, 1, Len(opened) - 1))
            ELSE opened
    IN  strip(closed)

(* def predict_success(self, query_analysis, routing_info): the two
   arguments only feed the prompt; gen is the outcome of generate_content
   and response.text *)
predict_success(query, routing_info, gen) ==
    LET parsed == IF gen.kind = "text" THEN json_loads(_clean_json(gen.text))
                  ELSE Raise(IF gen.kind = "raise" THEN gen.error ELSE "TypeError")
    IN  IF Raised(parsed) THEN prediction_fallback ELSE parsed.returned

-----------------------------------------------------------------------------
(* main.py: the handlers over the store *)

MaxRequests == 2
TickDays == 25
MaxTicks == 2

FilingRequests ==
    [question : {<<"r","a","t","i","o","n"," ","c","a","r","d"," ","i","n"," ","K","o","c","h","i">>},
     applicant_name : {<<"A","s","h","a">>},
     user_state : {<<"K","e","r","a","l","a">>},
     is_bpl : BOOLEAN]

AnalysisOutcomes(question) ==
    {GenRaise("Unavailable"),
     GenJson([original_question |-> question,
              subject |-> <<"R","a","t","i","o","n"," ","c","a","r","d"," ","s","t","a","t","u","s">>,
              category |-> food_ration,
              extracted_info |-> [location |-> <<"K","o","c","h","i">>]])}

DraftOutcomes == {GenRaise("Unavailable")}

PredictOutcomes ==
    {GenRaise("Unavailable"),
     GenText(<<FENCE, "json", "\n", FullEstimateDoc, "\n", FENCE>>)}

AppealOutcomes == {GenRaise("Timeout"), GenText(<<"A","p","p","e","a","l">>)}

Init ==
    /\ PIO_DIRECTORY = [central |-> <<C009, C001, C002>>,
                        state |-> <<[name |-> Kerala, pios |-> <<KL002, KL001>>],
                                    [name |-> Delhi, pios |-> <<DL001>>]>>]
    /\ DEPARTMENTS \in {d \in DepartmentConfigs : food_ration \in DOMAIN d.categories
                                                 /\ health \in DOMAIN d.categories}
    /\ query_analysis = Idle /\ user_state = Idle /\ routing = Idle
    /\ rti_record = Idle /\ generator = Idle /\ today = 0 /\ result = Idle
    /\ store = <<>>
    /\ requests = EmptyBag
    /\ clock = 0
    /\ response = Idle

(* file_rti, lines 131-149: analyze, route, draft and generate_ref_number.
   Nothing before the row count touches shared state, so the steps up to
   and including the count are one step.  An exception (route raising) is
   answered at once with status 500 (lines 205-206).  At most MaxRequests
   filings are stored or in flight. *)
FileRtiBegin ==
    /\ Len(store) + BagCardinality(requests) < MaxRequests
    /\ \E req \in FilingRequests :
       \E genA \in AnalysisOutcomes(req.question), genD \in DraftOutcomes :
          LET query_result == analyze(req.question, genA)
              routed == route(query_result, req.user_state)
          IN  IF Raised(routed)
              THEN /\ response' = [endpoint |-> "file-rti", status_code |-> 500]
                   /\ UNCHANGED requests
              ELSE /\ requests' = requests (+) SetToBag({
                          [req |-> req,
                           query_result |-> query_result,
                           routing |-> routed,
                           subject |-> draft_subject(query_result, genD),
                           ref_number |-> generate_ref_number(store, clock)]})
                   /\ UNCHANGED response
    /\ UNCHANGED <<config, routeVars, evalVars, store, clock>>

\* the unique constraint on ref_number left out: every commit stores its row
FileRtiCommit_unconstrained(r) ==
    /\ BagIn(r, requests)
    /\ requests' = requests (-) SetToBag({r})
    /\ store' = Append(store,
           [ref_number |-> r.ref_number,
            applicant_name |-> r.req.applicant_name,
            is_bpl |-> r.req.is_bpl,
            department |-> r.routing.department,
            pio_id |-> Get(r.routing.pio, "id", <<"N","o","n","e">>),
            subject |-> r.subject,
            status |-> "filed",
            filed_date |-> clock,
            appeal_filed |-> FALSE])
    /\ \E genP \in PredictOutcomes :
         response' = [endpoint |-> "file-rti", status_code |-> 200,
                      success |-> TRUE, ref_number |-> r.ref_number,
                      prediction |-> predict_success(r.query_result, r.routing,
                                                    genP)]
    /\ UNCHANGED <<config, routeVars, evalVars, clock>>

(* file_rti, lines 152-206: file, predict, then db.add / db.commit and the
   response.  The column ref_number is unique (database.py:30): committing
   a second row with a stored reference number raises, and the handler
   answers 500. *)
FileRtiCommit(r) ==
    /\ BagIn(r, requests)
    /\ requests' = requests (-) SetToBag({r})
    /\ IF HasRow(store, r.ref_number)
       THEN /\ response' = [endpoint |-> "file-rti", status_code |-> 500,
                            ref_number |-> r.ref_number]
            /\ UNCHANGED store
       ELSE /\ store' = Append(store,
                   [ref_number |-> r.ref_number,
                    applicant_name |-> r.req.applicant_name,
                    is_bpl |-> r.req.is_bpl,
                    department |-> r.routing.department,
                    pio_id |-> Get(r.routing.pio, "id", <<"N","o","n","e">>),
                    subject |-> r.subject,
                    status |-> "filed",
                    filed_date |-> clock,
                    appeal_filed |-> FALSE])
            /\ \E genP \in PredictOutcomes :
                 response' = [endpoint |-> "file-rti", status_code |-> 200,
                              success |-> TRUE, ref_number |-> r.ref_number,
                              prediction |-> predict_success(r.query_result, r.routing,
                                                            genP)]
    /\ UNCHANGED <<config, routeVars, evalVars, clock>>

\* the reference numbers a client may ask about: those stored or being
\* filed, and one that was never issued
KnownRefs ==
    {store[i].ref_number : i \in 1..Len(store)}
    \cup {r.ref_number : r \in BagToSet(requests)}
AskedRefs == KnownRefs \cup {<<"R","T","I","2","0","2","4","-","9","9","9","9","9">>}

\* def get_rti(ref_number, db)
GetRti(ref) ==
    /\ IF ~HasRow(store, ref)
       THEN response' = [endpoint |-> "get-rti", status_code |-> 404,
                         detail |-> "RTI not found", ref_number |-> ref]
       ELSE LET rti == store[RowIndex(store, ref)]
            IN  response' = [endpoint |-> "get-rti", status_code |-> 200,
                             success |-> TRUE, ref_number |-> ref,
                             data |-> [ref_number |-> rti.ref_number,
                                       applicant_name |-> rti.applicant_name,
                                       department |-> rti.department,
                                       subject |-> rti.subject,
                                       status |-> rti.status,
                                       filed_date |-> isoformat(rti.filed_date)]]
    /\ UNCHANGED <<config, routeVars, evalVars, store, requests, clock>>

\* the row test left out: the attribute access on the missing row raises
\* and the server answers 500
CheckAppeal_unguarded(ref) ==
    /\ IF ~HasRow(store, ref)
       THEN response' = [endpoint |-> "check-appeal", status_code |-> 500,
                         ref_number |-> ref]
       ELSE \E gen \in AppealOutcomes :
            LET rti == store[RowIndex(store, ref)]
                rti_dict == [ref_number |-> rti.ref_number,
                             status |-> rti.status,
                             filed_at |-> isoformat(rti.filed_date),
                             department |-> rti.department,
                             subject |-> rti.subject,
                             applicant_name |-> rti.applicant_name,
                             appeal_filed |-> rti.appeal_filed]
                res == check_and_appeal(rti_dict, gen, clock).value
            IN  response' = IF Raised(res)
                            THEN [endpoint |-> "check-appeal", status_code |-> 500,
                                  ref_number |-> ref]
                            ELSE [endpoint |-> "check-appeal", status_code |-> 200,
                                  success |-> TRUE, ref_number |-> ref, data |-> res]
    /\ UNCHANGED <<config, routeVars, evalVars, store, requests, clock>>

\* the decision written back as the row's status: first_appeal_filed and the
\* flag after a first appeal, filed after any other decision
CheckAppeal_writes_status(ref) ==
    /\ IF ~HasRow(store, ref)
       THEN /\ response' = [endpoint |-> "check-appeal", status_code |-> 404,
                            detail |-> "RTI not found", ref_number |-> ref]
            /\ UNCHANGED store
       ELSE \E gen \in AppealOutcomes :
            LET i == RowIndex(store, ref)
                rti == store[i]
                rti_dict == [ref_number |-> rti.ref_number,
                             status |-> rti.status,
                             filed_at |-> isoformat(rti.filed_date),
                             department |-> rti.department,
                             subject |-> rti.subject,
                             applicant_name |-> rti.applicant_name,
                             appeal_filed |-> rti.appeal_filed]
                res == check_and_appeal(rti_dict, gen, clock).value
            IN  /\ response' = [endpoint |-> "check-appeal", status_code |-> 200,
                                success |-> TRUE, ref_number |-> ref, data |-> res]
                /\ store' = IF res.action = "first_appeal"
                            THEN [store EXCEPT ![i].status = "first_appeal_filed",
                                               ![i].appeal_filed = TRUE]
                            ELSE [store EXCEPT ![i].status = "filed"]
    /\ UNCHANGED <<config, routeVars, evalVars, requests, clock>>

\* def check_appeal(req, db)
CheckAppeal(ref) ==
    /\ IF ~HasRow(store, ref)
       THEN response' = [endpoint |-> "check-appeal", status_code |-> 404,
                         detail |-> "RTI not found", ref_number |-> ref]
       ELSE \E gen \in AppealOutcomes :
            LET rti == store[RowIndex(store, ref)]
                rti_dict == [ref_number |-> rti.ref_number,
                             status |-> rti.status,
                             filed_at |-> isoformat(rti.filed_date),
                             department |-> rti.department,
                             subject |-> rti.subject,
                             applicant_name |-> rti.applicant_name,
                             appeal_filed |-> rti.appeal_filed]
                res == check_and_appeal(rti_dict, gen, clock).value
            IN  response' = IF Raised(res)
                            THEN [endpoint |-> "check-appeal", status_code |-> 500,
                                  ref_number |-> ref]
                            ELSE [endpoint |-> "check-appeal", status_code |-> 200,
                                  success |-> TRUE, ref_number |-> ref, data |-> res]
    /\ UNCHANGED <<config, routeVars, evalVars, store, requests, clock>>

\* time passes
Tick ==
    /\ clock < MaxTicks * TickDays * UnitsPerDay
    /\ clock' = clock + TickDays * UnitsPerDay
    /\ UNCHANGED <<config, routeVars, evalVars, store, requests, response>>

Next ==
    \/ FileRtiBegin
    \/ \E r \in BagToSet(requests) : FileRtiCommit(r)
    \/ \E ref \in AskedRefs : CheckAppeal(ref)
    \/ \E ref \in AskedRefs : GetRti(ref)
    \/ Tick

Spec == Init /\ [][Next]_vars

-----------------------------------------------------------------------------
(* Claims on RoutingAgent.route (SpecRoute) *)

Routed == routing # Pending
routedCategory == Get(query_analysis, "category", other)

\* every office record of the loaded directory
DirectoryOffices ==
    {CentralPios[i] : i \in 1..Len(CentralPios)}
    \cup UNION {{StateTable[k].pios[i] : i \in 1..Len(StateTable[k].pios)} :
                k \in 1..Len(StateTable)}

(* C1. Routing totality: whatever the category (known to the category
   configuration or not), the jurisdiction hint (empty, blank, garbage) and
   the fee-exemption flag, route raises nothing and returns a decision whose
   office is an office record of the directory, never a null value. *)
C1_RoutingTotality ==
    Routed => /\ ~Raised(routing)
              /\ "pio" \in DOMAIN routing
              /\ routing.pio \in DirectoryOffices

\* an unknown category with a garbage hint, served by the last-resort office
C1_Witness ==
    /\ Routed
    /\ routedCategory = <<"z","z","z">>
    /\ user_state = <<"A","t","l","a","n","t","i","s">>
    /\ PIO_DIRECTORY.central = <<C002>>
    /\ routing.pio = C002

CentralOffices == {CentralPios[i] : i \in 1..Len(CentralPios)}
RegionOffices(name) == {StatePios(name)[i] : i \in 1..Len(StatePios(name))}
routedState == resolved_state(query_analysis, user_state)

\* some office registered in the region carries a keyword of the category
\* in its joined, lower-cased category tags
RegionHasKeywordOffice(category, name) ==
    LET kws == Get(Get(DEPARTMENTS.categories, category, EmptyDict), "keywords", <<>>)
    IN  \E pio \in RegionOffices(name) : \E k \in 1..Len(kws) :
            Contains(Cats(pio), lower(kws[k]))

(* C8. Region preference: for a region-local category (food_ration,
   electricity, water, housing, road_infrastructure) and a resolved
   jurisdiction in which some registered office matches the category's
   keywords, route selects an office registered in that region and never a
   central office. *)
C8_RegionPreference ==
    (/\ Routed
     /\ routedCategory \in {food_ration, electricity, water, housing, road_infrastructure}
     /\ RegionHasKeywordOffice(routedCategory, routedState))
    => /\ ~Raised(routing)
       /\ routing.pio \in RegionOffices(routedState)
       /\ routing.pio \notin CentralOffices

\* food_ration from " KERALA ": the Kerala ration office, second in its list,
\* is chosen although the category configures central office C009
C8_Witness ==
    /\ Routed
    /\ routedCategory = food_ration
    /\ user_state = <<" ","K","E","R","A","L","A"," ">>
    /\ RegionHasKeywordOffice(food_ration, Kerala)
    /\ Get(dept_info(food_ration), "central_pio_id", <<>>) = <<"C","0","0","9">>
    /\ C009 \in CentralOffices
    /\ routing.pio = KL001

(* C10. For a category that is not region-local and whose configuration
   names a central office id present in the central directory, route returns
   the central office with that id, whatever the jurisdiction hint and the
   query text. *)
C10_CentralOfficeForCentralCategory ==
    LET cid == Get(Get(DEPARTMENTS.categories, routedCategory, EmptyDict),
                   "central_pio_id", <<>>)
    IN  (/\ Routed
         /\ routedCategory \notin STATE_SUBJECTS
         /\ cid # <<>>
         /\ \E pio \in CentralOffices : pio.id = cid)
        => /\ ~Raised(routing)
           /\ routing.pio \in CentralOffices
           /\ routing.pio.id = cid

\* railways with a hint that resolves to a region with registered offices
C10_Witness ==
    /\ Routed
    /\ routedCategory = railways
    /\ user_state = <<"K","e","r","a","l","a">>
    /\ routedState = Kerala
    /\ RegionOffices(Kerala) # {}
    /\ routing.pio = C001

\* railways with the empty hint, which resolves to the default jurisdiction
C10_WitnessEmptyHint ==
    /\ Routed
    /\ routedCategory = railways
    /\ user_state = <<>>
    /\ routedState = Delhi
    /\ routing.pio = C001

-----------------------------------------------------------------------------
(* Claims on AppealAgent.check_and_appeal (SpecEval) *)

Evaluated == result # Pending
evalDays == (today - fromisoformat(rti_record.filed_at)) \div UnitsPerDay
decision == result.value

(* C3. Escalation monotonicity: for a record whose status is not
   response_received and whose appeal_filed is false, the decision is waiting
   when fewer than 25 whole days have elapsed (days 0, 10, 24), reminder
   from day 25 to day 29, and first-appeal from day 30 on; with appeal_filed
   set, the evaluation at day 30 or later (day 31) is not first-appeal. *)
C3_EscalationMonotonicity ==
    (Evaluated /\ rti_record.status # "response_received")
    => /\ ~Raised(decision)
       /\ (~rti_record.appeal_filed /\ evalDays < 25) => decision.action = "waiting"
       /\ (~rti_record.appeal_filed /\ evalDays >= 25 /\ evalDays < 30)
              => decision.action = "reminder"
       /\ (~rti_record.appeal_filed /\ evalDays >= 30) => decision.action = "first_appeal"
       /\ (rti_record.appeal_filed /\ evalDays >= 30) => decision.action # "first_appeal"

\* the first-appeal decision on day 30 exactly
C3_Witness ==
    /\ Evaluated
    /\ rti_record.status = "filed"
    /\ ~rti_record.appeal_filed
    /\ evalDays = 30
    /\ decision.action = "first_appeal"

\* day 31 with the flag set: no first appeal
C3_WitnessAfterAppeal ==
    /\ Evaluated
    /\ rti_record.status = "filed"
    /\ rti_record.appeal_filed
    /\ evalDays = 31
    /\ decision.action = "reminder"

(* C5. Fallback non-failure: when the generator call fails, a record at
   least 30 days old with status other than response_received and
   appeal_filed false still evaluates to first-appeal, nothing is raised, and
   the appeal content is the non-empty template text carrying the record's
   reference number, applicant, department and subject. *)
C5_FallbackNonFailure ==
    (/\ Evaluated
     /\ generator.kind = "raise"
     /\ evalDays >= 30
     /\ rti_record.status # "response_received"
     /\ ~rti_record.appeal_filed)
    => /\ ~Raised(decision)
       /\ decision.action = "first_appeal"
       /\ decision.appeal_draft # <<>>
       /\ Contains(decision.appeal_draft, rti_record.ref_number)
       /\ Contains(decision.appeal_draft, rti_record.applicant_name)
       /\ Contains(decision.appeal_draft, rti_record.department)
       /\ Contains(decision.appeal_draft, rti_record.subject)

\* a 31-day-old unanswered record evaluated while the generator times out
C5_Witness ==
    /\ Evaluated
    /\ generator = GenRaise("Timeout")
    /\ evalDays = 31
    /\ rti_record.status = "filed"
    /\ ~rti_record.appeal_filed
    /\ decision.action = "first_appeal"
    /\ Len(decision.appeal_draft) > 0

(* C6. Every first-appeal decision carries usable appeal content: whatever
   the generator does (fails, returns no text, returns any text, empty or
   blank text included), the appeal_draft of a first-appeal decision is a
   non-empty string. *)
C6_AppealDraftNeverEmpty ==
    (Evaluated /\ ~Raised(decision) /\ decision.action = "first_appeal")
    => decision.appeal_draft # <<>>

(* C7. A record whose status is response_received evaluates to no-action
   for every number of elapsed days and both values of appeal_filed, and no
   appeal content is generated. *)
C7_ResponseReceivedNoAction ==
    (Evaluated /\ rti_record.status = "response_received")
    => /\ ~Raised(decision)
       /\ decision.action = "none"
       /\ "appeal_draft" \notin DOMAIN decision
       /\ result.generator_calls = 0

\* an answered record past the deadline with no appeal filed
C7_Witness ==
    /\ Evaluated
    /\ rti_record.status = "response_received"
    /\ ~rti_record.appeal_filed
    /\ evalDays >= 30
    /\ decision.action = "none"

-----------------------------------------------------------------------------
(* Claims on the handlers over the store (Spec) *)

\* resp is a check-appeal response carrying a first-appeal decision for ref
IsFirstAppeal(resp, ref) ==
    /\ "endpoint" \in DOMAIN resp
    /\ resp.endpoint = "check-appeal"
    /\ resp.status_code = 200
    /\ resp.ref_number = ref
    /\ resp.data.action = "first_appeal"

(* C2. A first-appeal decision is produced at most once per stored record:
   once check-appeal has answered first-appeal for a reference number, the
   flag appeal_filed is persisted, so the check-appeal that answers next for
   the same reference number does not answer first-appeal again. *)
C2_FirstAppealAtMostOnce ==
    [][\A ref \in KnownRefs :
          IsFirstAppeal(response, ref)
          => ~(response' # response /\ IsFirstAppeal(response', ref))]_vars

(* C4. Reference numbers are unique under every interleaving of concurrent
   file-rti requests: the numbers held by the requests in flight differ from
   each other and from the numbers of the rows already stored. *)
C4_ReferenceNumbersUnique ==
    \A r \in BagToSet(requests) :
        /\ CopiesIn(r, requests) = 1
        /\ \A q \in BagToSet(requests) : q # r => q.ref_number # r.ref_number
        /\ ~HasRow(store, r.ref_number)

(* C9. Fee exemption: a file-rti request whose is_bpl flag is true gets a
   routing decision with filing fee 0. *)
C9_FeeExemption ==
    \A r \in BagToSet(requests) : r.req.is_bpl => r.routing.filing_fee = 0

-----------------------------------------------------------------------------
(* Claims on the alias resolver and the jurisdiction class (SpecRoute) *)

\* the hint's alias-table key: trimmed and lower-cased
hintKey == lower(strip(user_state))

\* the hint is non-empty and its key is a key of the alias table
HintIsAlias == user_state # <<>> /\ InAliases(hintKey)

\* the requester is not fee-exempt
NotExempt == ~Get(query_analysis, "is_bpl", FALSE)

GeneralFee == Get(Get(DEPARTMENTS, "filing_fee", EmptyDict), "general", 10)

(* C11. A jurisdiction hint that is a key of the alias table, in any letter
   case and with surrounding whitespace, is routed exactly as the canonical
   region name the table maps it to: the whole routing decision is the same.
   In particular food_ration with hint "Trivandrum" resolves to Kerala and,
   when a Kerala office matches the ration keywords, a Kerala office is
   returned with jurisdiction class "state" and, for a requester who is not
   exempt, the configured general fee. *)
C11_AliasRoutedAsCanonical ==
    /\ (Routed /\ HintIsAlias)
       => /\ routing = route(query_analysis, AliasOf(hintKey))
          /\ _normalize_state(user_state) = AliasOf(hintKey)
    /\ (/\ Routed
        /\ user_state = <<"T","r","i","v","a","n","d","r","u","m">>
        /\ routedCategory = food_ration
        /\ RegionHasKeywordOffice(food_ration, Kerala))
       => /\ ~Raised(routing)
          /\ routing.pio \in RegionOffices(Kerala)
          /\ kwMatch(food_ration, routing.pio)
          /\ routing.jurisdiction = "state"
          /\ NotExempt => routing.filing_fee = GeneralFee

\* food_ration from "Trivandrum" for a requester who is not exempt: the
\* Kerala ration office, class "state", fee 10
C11_Witness ==
    /\ Routed
    /\ user_state = <<"T","r","i","v","a","n","d","r","u","m">>
    /\ routedCategory = food_ration
    /\ NotExempt
    /\ routing.pio = KL001
    /\ routing.jurisdiction = "state"
    /\ routing.filing_fee = 10
    /\ routing = route(query_analysis, Kerala)

\* a region name the alias table does not map to another name
Canonical(name) ==
    LET key == lower(name) IN InAliases(key) => AliasOf(key) = name

(* C12. Alias idempotence: for every canonical region name that is a key of
   the directory's region table, _normalize_state returns that same name, so
   resolving the resolved hint again changes nothing whenever the resolved
   hint is such a name. *)
C12_AliasIdempotence ==
    /\ \A i \in 1..Len(StateTable) :
          Canonical(StateTable[i].name)
          => _normalize_state(StateTable[i].name) = StateTable[i].name
    /\ LET resolved == _normalize_state(user_state)
       IN  (Routed /\ InStateTable(resolved) /\ Canonical(resolved))
           => \E name \in {resolved} : _normalize_state(name) = name

\* "daman and diu" resolves to the directory's own spelling, found by the
\* case-insensitive scan, and that name resolves to itself
C12_Witness ==
    /\ Routed
    /\ user_state = <<"d","a","m","a","n"," ","a","n","d"," ","d","i","u">>
    /\ InStateTable(DamanAndDiu)
    /\ ~InAliases(lower(DamanAndDiu))
    /\ _normalize_state(user_state) = DamanAndDiu
    /\ _normalize_state(DamanAndDiu) = DamanAndDiu

(* C13. For every input string (empty, missing, whitespace-only, arbitrary
   text) _normalize_state returns a non-empty jurisdiction key, and for the
   empty or missing input the key is "Delhi". *)
C13_ResolveNeverEmpty ==
    Routed => /\ _normalize_state(user_state) # <<>>
              /\ user_state = <<>> => _normalize_state(user_state) = Delhi

\* every office registered in some region
AllRegionOffices ==
    UNION {{StateTable[k].pios[i] : i \in 1..Len(StateTable[k].pios)} :
           k \in 1..Len(StateTable)}

\* the directory keeps the identifier marker: central ids start with "C",
\* region ids do not
MarkerKept ==
    /\ \A pio \in CentralOffices : startswith(Get(pio, "id", <<>>), <<"C">>)
    /\ \A pio \in AllRegionOffices : ~startswith(Get(pio, "id", <<>>), <<"C">>)

(* C14. Over a directory whose identifiers keep the central-scope marker,
   the jurisdiction class of a routing decision is "central" exactly when
   the selected office comes from the central directory and "state" exactly
   when it comes from a region's office list. *)
C14_JurisdictionClassMatchesScope ==
    (Routed /\ MarkerKept)
    => /\ ~Raised(routing)
       /\ routing.jurisdiction \in {"central", "state"}
       /\ routing.jurisdiction = "central" <=> routing.pio \in CentralOffices
       /\ routing.jurisdiction = "state" <=> routing.pio \in AllRegionOffices

\* a region-local category served by a central office because the resolved
\* region has no registered office
C14_Witness ==
    /\ Routed
    /\ MarkerKept
    /\ AllRegionOffices # {}
    /\ routedCategory = food_ration
    /\ RegionOffices(routedState) = {}
    /\ routing.pio \in CentralOffices
    /\ routing.jurisdiction = "central"

\* a region-local category served by an office of the region
C14_WitnessState ==
    /\ Routed
    /\ MarkerKept
    /\ routedCategory = electricity
    /\ routing.pio = KL002
    /\ routing.jurisdiction = "state"

-----------------------------------------------------------------------------
(* Claims on the status and appeal checks and on the filing pipeline (Spec) *)

DecisionKinds == {"none", "waiting", "reminder", "first_appeal"}

\* resp answers a status check (get-rti) or an appeal check (check-appeal)
IsCheckResponse(resp) ==
    "endpoint" \in DOMAIN resp /\ resp.endpoint \in {"check-appeal", "get-rti"}

(* C15. A status or appeal check for a reference number that is not in the
   store is answered with the record-not-found failure (404) and carries no
   escalation decision; a check for a stored reference number is answered
   with success, and an appeal check then carries an escalation decision.
   No other failure reaches the caller of a check. *)
C15_OnlyNotFoundFails ==
    [][(response' # response /\ IsCheckResponse(response'))
       => IF HasRow(store, response'.ref_number)
          THEN /\ response'.status_code = 200
               /\ "data" \in DOMAIN response'
               /\ response'.endpoint = "check-appeal"
                      => response'.data.action \in DecisionKinds
          ELSE /\ response'.status_code = 404
               /\ response'.detail = "RTI not found"
               /\ "data" \notin DOMAIN response']_vars

\* an appeal check for a number that was never issued, asked while another
\* record is stored
C15_Witness ==
    /\ store # <<>>
    /\ IsCheckResponse(response)
    /\ response.endpoint = "check-appeal"
    /\ response.ref_number = <<"R","T","I","2","0","2","4","-","9","9","9","9","9">>
    /\ response.status_code = 404

\* an appeal check for a stored record, answered with a decision
C15_WitnessFound ==
    /\ IsCheckResponse(response)
    /\ response.endpoint = "check-appeal"
    /\ HasRow(store, response.ref_number)
    /\ response.status_code = 200
    /\ response.data.action = "reminder"

\* the generator failed in analyze and in draft: both fell back
FellBack(r) ==
    /\ r.query_result = _fallback_response(r.req.question)
    /\ r.subject = _fallback_response(r.req.question).subject

(* C16. When the generator fails on every call of a file-rti request
   (analyze, draft and predict all fall back), the request completes: it
   persists one record with status filed under its reference number and
   answers success. *)
C16_GeneratorFailureNeverSurfaces ==
    [][\A r \in BagToSet(requests) :
          (/\ FellBack(r)
           /\ requests' = requests (-) SetToBag({r})
           /\ "prediction" \in DOMAIN response'
                  => response'.prediction = prediction_fallback)
          => /\ response'.endpoint = "file-rti"
             /\ response'.status_code = 200
             /\ Len(store') = Len(store) + 1
             /\ store'[Len(store')].ref_number = r.ref_number
             /\ store'[Len(store')].status = "filed"]_vars

\* database.py, lines 48-50: the position of a status in the lifecycle
StatusRank(s) ==
    CASE s = "drafted" -> 0
      [] s = "filed" -> 1
      [] s = "acknowledged" -> 2
      [] s = "response_received" -> 3
      [] s = "first_appeal_filed" -> 4
      [] s = "second_appeal_filed" -> 5
      [] s = "closed" -> 6

(* C18. No operation moves the status of a stored record backwards along
   the lifecycle drafted, filed, acknowledged, response_received,
   first_appeal_filed, second_appeal_filed, closed: every step keeps every
   stored record and leaves its status where it was or further along. *)
C18_StatusNeverRegresses ==
    [][/\ Len(store') >= Len(store)
       /\ \A i \in 1..Len(store) :
             /\ store'[i].ref_number = store[i].ref_number
             /\ StatusRank(store'[i].status) >= StatusRank(store[i].status)]_vars

\* a stored record past its deadline, checked and answered with a first
\* appeal, still carries the status it was filed with
C18_Witness ==
    /\ Len(store) = 1
    /\ IsFirstAppeal(response, store[1].ref_number)
    /\ store[1].status = "filed"

(* C26. In every reachable state the stored records have pairwise distinct
   reference numbers: when two concurrent filings computed the same number,
   one of them is stored and the other was answered with an explicit filing
   failure, its number being held by the one stored record; no record is
   overwritten or duplicated. *)
C26_StoredReferencesDistinct ==
    /\ \A i, j \in 1..Len(store) :
          i # j => store[i].ref_number # store[j].ref_number
    /\ (/\ "endpoint" \in DOMAIN response
        /\ response.endpoint = "file-rti"
        /\ response.status_code = 500
        /\ "ref_number" \in DOMAIN response)
       => Cardinality({i \in 1..Len(store) :
                          store[i].ref_number = response.ref_number}) = 1

\* two filings computed RTI2024-00001: one is stored, the other failed
C26_Witness ==
    /\ Len(store) = 1
    /\ requests = EmptyBag
    /\ "endpoint" \in DOMAIN response
    /\ response.endpoint = "file-rti"
    /\ response.status_code = 500
    /\ response.ref_number = store[1].ref_number

-----------------------------------------------------------------------------
(* Further claims on AppealAgent.check_and_appeal (SpecEval) *)

(* C17. A record at least 30 days old with status other than
   response_received and appeal_filed false evaluates to first-appeal;
   days_elapsed is the whole number of days between the filing timestamp
   and now (32 for a record filed 32 days ago), and the appeal text is
   non-empty and contains the record's reference number. *)
C17_FirstAppealCarriesReference ==
    (/\ Evaluated
     /\ evalDays >= 30
     /\ rti_record.status # "response_received"
     /\ ~rti_record.appeal_filed)
    => /\ ~Raised(decision)
       /\ decision.action = "first_appeal"
       /\ decision.days_elapsed = evalDays
       /\ decision.appeal_draft # <<>>
       /\ Contains(decision.appeal_draft, rti_record.ref_number)

(* C19. Escalation evaluation is a pure computation: the step that produces
   the decision, whatever its kind (no-action, waiting, reminder,
   first-appeal), leaves the record snapshot (status, appeal_filed and every
   other field) and the store unchanged. *)
C19_EvaluationIsPure ==
    [][result' # result
       => /\ rti_record' = rti_record
          /\ store' = store]_vars

\* a first-appeal decision was returned and the snapshot still says that
\* no appeal was filed
C19_Witness ==
    /\ Evaluated
    /\ ~Raised(decision)
    /\ decision.action = "first_appeal"
    /\ ~rti_record.appeal_filed
    /\ rti_record.status = "filed"

(* C20. A record with 30 or more days elapsed, appeal_filed true and status
   other than response_received is classified as waiting: the decision is
   neither first-appeal nor reminder. *)
C20_AppealedRecordWaits ==
    (/\ Evaluated
     /\ evalDays >= 30
     /\ rti_record.appeal_filed
     /\ rti_record.status # "response_received")
    => /\ ~Raised(decision)
       /\ decision.action = "waiting"

\* the opening words of the template of the fallback
TemplateOpening == first_appeal_template[1].lit

(* C25. Each escalation evaluation calls the generator at most once, and
   only when the decision is first-appeal; after a failed call the appeal
   content is the template text at once, with no second call, and the
   evaluations that return no-action, waiting or reminder make no call. *)
C25_GeneratorCalledAtMostOnce ==
    Evaluated
    => /\ ~Raised(decision)
       /\ result.generator_calls \in {0, 1}
       /\ result.generator_calls = 1 <=> decision.action = "first_appeal"
       /\ decision.action \in {"none", "waiting", "reminder"}
              => result.generator_calls = 0
       /\ (decision.action = "first_appeal" /\ generator.kind # "text")
              => /\ result.generator_calls = 1
                 /\ startswith(decision.appeal_draft, TemplateOpening)

\* a reminder decision, taken without a generator call
C25_Witness ==
    /\ Evaluated
    /\ decision.action = "reminder"
    /\ result.generator_calls = 0
    /\ generator.kind = "text"

\* a first appeal after a failed call: one call, template content
C25_WitnessFailedCall ==
    /\ Evaluated
    /\ decision.action = "first_appeal"
    /\ generator = GenRaise("Timeout")
    /\ result.generator_calls = 1
    /\ startswith(decision.appeal_draft, TemplateOpening)

-----------------------------------------------------------------------------
(* Claims on the tiers of _find_pio and on the jurisdiction used (SpecRoute) *)

\* the closed category set
KnownCategories ==
    {road_infrastructure, food_ration, electricity, water, education, health,
     employment, housing, railways, income_tax, lpg_petroleum, postal, other}

\* tiers 2, 3 and 4 found nothing for the routed request
RegionTierEmpty ==
    ~is_state_subject(routedCategory) \/ RegionOffices(routedState) = {}
CentralIdTierEmpty ==
    LET cid == Get(dept_info(routedCategory), "central_pio_id", <<>>)
    IN  cid = <<>> \/ \A pio \in CentralOffices : pio.id # cid
KeywordTierEmpty == \A pio \in CentralOffices : ~kwMatch(routedCategory, pio)
ReachedFallbackTier == RegionTierEmpty /\ CentralIdTierEmpty /\ KeywordTierEmpty

(* C21. The fallback map of tier 5 has an entry for every category of the
   closed category set, so a request of such a category that reaches tier 5
   gets the office the map names for its own category, when the central
   directory holds that office. *)
C21_FallbackMapCoversCategories ==
    (Routed /\ routedCategory \in KnownCategories /\ ReachedFallbackTier)
    => /\ routedCategory \in DOMAIN fallback_dict
       /\ (\E pio \in CentralOffices : pio.id = fallback_dict[routedCategory])
              => routing.pio.id = fallback_dict[routedCategory]

\* tier 2 applies to the routed request
RegionTierApplies ==
    Routed /\ is_state_subject(routedCategory) /\ RegionOffices(routedState) # {}

(* C22. Tier 2 as first stated: for a region-local category and a
   jurisdiction with at least one registered office, the office returned is
   the first office in directory order whose joined lower-cased category
   tags contain one of the category's configured keywords and, only if no
   office matches a keyword, the first registered office of the region. *)
C22_KeywordOfficeOrFirst ==
    RegionTierApplies
    => LET pios == StatePios(routedState)
           match(pio) == kwMatch(routedCategory, pio)
       IN  /\ ~Raised(routing)
           /\ routing.pio = IF AnyOf(pios, match) THEN FirstOf(pios, match)
                            ELSE pios[1]

(* C22, amended. The office returned by tier 2 is the first office in
   directory order whose joined lower-cased category tags contain one of the
   category's configured keywords or the category's own name and, only if
   no office matches either, the first registered office of the region. *)
C22_KeywordOrCategoryOfficeOrFirst ==
    RegionTierApplies
    => LET pios == StatePios(routedState)
           match(pio) == \/ kwMatch(routedCategory, pio)
                         \/ Contains(Cats(pio), routedCategory)
       IN  /\ ~Raised(routing)
           /\ routing.pio = IF AnyOf(pios, match) THEN FirstOf(pios, match)
                            ELSE pios[1]

\* electricity in Kerala where no office matches a keyword: the second
\* office, tagged "Electricity", is returned instead of the first
C22_Witness ==
    /\ RegionTierApplies
    /\ routedCategory = electricity
    /\ routedState = Kerala
    /\ StatePios(Kerala) = <<KL001, KL002>>
    /\ \A pio \in RegionOffices(Kerala) : ~kwMatch(electricity, pio)
    /\ routing.pio = KL002

\* the jurisdiction the claim C23 describes, from the hint and the query text
ExpectedJurisdiction ==
    LET resolved == _normalize_state(user_state)
        text == lower(Get(query_analysis, "original_question", <<>>) \o <<" ">>
                      \o Get(Get(query_analysis, "extracted_info", EmptyDict),
                             "location", <<>>))
        occurs(i) == Contains(text, STATE_ALIASES[i][1])
    IN  IF InStateTable(resolved) THEN resolved
        ELSE IF \E i \in 1..Len(STATE_ALIASES) : occurs(i)
        THEN STATE_ALIASES[CHOOSE i \in 1..Len(STATE_ALIASES) :
                 occurs(i) /\ \A j \in 1..(i-1) : ~occurs(j)][2]
        ELSE resolved

\* the routed request with its query text and extracted location blanked
WithoutText ==
    [k \in DOMAIN query_analysis |->
        IF k = "original_question" THEN <<>>
        ELSE IF k = "extracted_info" THEN [location |-> <<>>]
        ELSE query_analysis[k]]

(* C23. The query text and the extracted location influence the
   jurisdiction only when the hint's resolved jurisdiction is absent from
   the directory's region table: a hint that resolves to a registered region
   is routed as if there were no text, and otherwise the office is the one
   found for the canonical region of the first alias-table key, in table
   order, that occurs as a substring of the lower-cased query plus location,
   or for the resolver's output when no key occurs. *)
C23_TextOnlyWhenUnregistered ==
    Routed
    => /\ ~Raised(routing)
       /\ routing.pio = _find_pio(routedCategory, ExpectedJurisdiction)
       /\ InStateTable(_normalize_state(user_state))
              => routing = route(WithoutText, user_state)

\* an unregistered hint with "Kochi" in the query: the Kerala ration office
C23_Witness ==
    /\ Routed
    /\ user_state = <<"A","t","l","a","n","t","i","s">>
    /\ query_analysis.original_question = <<"r","a","t","i","o","n"," ","c","a","r","d"," ","i","n"," ","K","o","c","h","i">>
    /\ routedCategory = food_ration
    /\ ExpectedJurisdiction = Kerala
    /\ routing.pio = KL001

\* a registered hint is kept although "up" occurs in "power supply"
C23_WitnessRegistered ==
    /\ Routed
    /\ user_state = <<"K","e","r","a","l","a">>
    /\ InStateTable(Kerala)
    /\ query_analysis.original_question = <<"p","o","w","e","r"," ","s","u","p","p","l","y">>
    /\ routedCategory = electricity
    /\ routing.pio = KL002

-----------------------------------------------------------------------------
(* SpecPredict: AppealAgent.predict_success applied to every query analysis,
   routing decision and generator outcome *)

RoutingInfos ==
    {[department |-> <<"F","o","o","d">>, jurisdiction |-> "central"],
     [department |-> <<"C","i","v","i","l"," ","S","u","p","p","l","i","e","s">>, jurisdiction |-> "state"]}

PredictGenerations ==
    {GenRaise("Unavailable"), GenRaise("Timeout"), GenNone,
     GenText(<<>>),
     GenText(<<"Sure, here is the estimate:">>),
     GenText(<<FullEstimateDoc>>),
     GenText(<<" ", FENCE, "json", "\n", FullEstimateDoc, "\n", FENCE, "\n">>),
     GenText(<<FENCE, "\n", FullEstimateDoc, FENCE>>),
     GenText(<<FENCE, "js", "\n", FullEstimateDoc, "\n", FENCE>>),
     GenText(<<FullEstimateDoc, " ", FullEstimateDoc>>),
     GenText(<<ErrorDoc>>),
     GenText(<<FENCE, "json", "\n", PartialDoc, "\n", FENCE>>),
     GenText(<<EmptyObjectDoc>>)}

InitPredict ==
    /\ PIO_DIRECTORY = Idle /\ DEPARTMENTS = Idle
    /\ query_analysis \in QueryAnalyses
    /\ user_state = Idle
    /\ routing \in RoutingInfos
    /\ rti_record = Idle
    /\ generator \in PredictGenerations
    /\ today = 0
    /\ result = Pending
    /\ store = <<>> /\ requests = EmptyBag /\ clock = 0 /\ response = Idle

Predict ==
    /\ result = Pending
    /\ result' = predict_success(query_analysis, routing, generator)
    /\ UNCHANGED <<config, routeVars, rti_record, generator, today, sysVars>>

NextPredict == Predict

SpecPredict == InitPredict /\ [][NextPredict]_vars

-----------------------------------------------------------------------------
(* Claims on AppealAgent.predict_success (SpecPredict) *)

Predicted == result # Pending

RequiredShape ==
    {"success_probability", "factors", "risk_level", "tips",
     "estimated_response_days"}

\* the generator's text, cleaned, is a JSON document of the required shape
GeneratedRequiredShape ==
    /\ generator.kind = "text"
    /\ ~Raised(json_loads(_clean_json(generator.text)))
    /\ DOMAIN json_loads(_clean_json(generator.text)).returned = RequiredShape

(* C24. predict_success always returns a structured estimate of the
   required shape (success_probability, factors, risk_level, tips,
   estimated_response_days): whenever the generator is unavailable or its
   output is not parseable as that shape, the fixed fallback estimate is
   returned instead of the generator's output. *)
C24_EstimateAlwaysShaped ==
    Predicted
    => /\ DOMAIN result = RequiredShape
       /\ ~GeneratedRequiredShape => result = prediction_fallback

====
